---------------------------- MODULE Spec2Model ----------------------------
(***************************************************************************)
(* A model of include/Optimization/Convex/ADMM.h: the ADMM solver loop,    *)
(* its stopping criteria and its two penalty-parameter update rules.       *)
(*                                                                         *)
(* A C++ double is modelled as a pair <<n, d>> of integers:                *)
(*   d > 0  : the rational n/d in lowest terms,                            *)
(*   <<1,0>>: +infinity,  <<-1,0>>: -infinity,  <<0,0>>: NaN.              *)
(* Arithmetic is exact on the rationals and follows IEEE 754 on the        *)
(* special values (x/0, 0/0, inf-inf, comparisons with NaN are false).     *)
(* Not modelled: rounding of +,-,*,/ , overflow, underflow, signed zeros.  *)
(* sqrt is exact on squares of rationals and otherwise truncated to a      *)
(* 13-bit binary mantissa (toward zero).                                  *)
(***************************************************************************)
EXTENDS Integers, Sequences, FiniteSets, TLC

----------------------------------------------------------------------------
(* double *)

Abs(k) == IF k < 0 THEN -k ELSE k

Sign(k) == IF k < 0 THEN -1 ELSE IF k = 0 THEN 0 ELSE 1

RECURSIVE Gcd(_, _)
Gcd(a, b) == IF b = 0 THEN a ELSE Gcd(b, a % b)

\* The double n/d, brought to its canonical form.
Dbl(n, d) ==
    IF d = 0 THEN <<Sign(n), 0>>
    ELSE LET g == Gcd(Abs(n), Abs(d))
         IN  <<(Sign(d) * n) \div g, Abs(d) \div g>>

Num(k) == <<k, 1>>

Zero == <<0, 1>>

NaN == <<0, 0>>

PInf == <<1, 0>>

IsNaN(a) == a = NaN

IsFinite(a) == a[2] > 0

DNeg(a) == <<-a[1], a[2]>>

\* a + b; the common denominator is the least common multiple.
DAdd(a, b) ==
    IF a[2] = 0 \/ b[2] = 0
    THEN IF a[2] = 0 /\ b[2] = 0
         THEN (IF a = b THEN a ELSE NaN)
         ELSE IF a[2] = 0 THEN a ELSE b
    ELSE LET g == Gcd(a[2], b[2])
         IN  Dbl(a[1] * (b[2] \div g) + b[1] * (a[2] \div g), (a[2] \div g) * b[2])

DSub(a, b) == DAdd(a, DNeg(b))

\* a * b; cross-cancelled before multiplying.
DMul(a, b) ==
    IF a[2] = 0 \/ b[2] = 0
    THEN Dbl(Sign(a[1]) * Sign(b[1]), 0)
    ELSE LET g1 == Gcd(Abs(a[1]), b[2])
             g2 == Gcd(Abs(b[1]), a[2])
         IN  <<(a[1] \div g1) * (b[1] \div g2), (a[2] \div g2) * (b[2] \div g1)>>

\* 1 / a  (1/0 = +inf, 1/inf = 0, 1/NaN = NaN).
DRecip(a) ==
    IF a = NaN THEN NaN
    ELSE IF a[2] = 0 THEN Zero
    ELSE IF a[1] = 0 THEN PInf
    ELSE <<Sign(a[1]) * a[2], Abs(a[1])>>

DDiv(a, b) == DMul(a, DRecip(b))

\* n1/d1 < n2/d2 for d1, d2 > 0, by the Euclidean expansion of both sides
\* (no cross product, so no intermediate value exceeds the operands).
RECURSIVE FracLt(_, _, _, _)
FracLt(n1, d1, n2, d2) ==
    LET q1 == n1 \div d1
        q2 == n2 \div d2
        r1 == n1 % d1
        r2 == n2 % d2
    IN  IF q1 # q2 THEN q1 < q2
        ELSE IF r2 = 0 THEN FALSE
        ELSE IF r1 = 0 THEN TRUE
        ELSE FracLt(d2, r2, d1, r1)

\* a < b ; false when either is NaN.
DLt(a, b) ==
    /\ a # NaN
    /\ b # NaN
    /\ IF a[2] = 0 \/ b[2] = 0
       THEN IF a[2] = 0 /\ b[2] = 0 THEN a[1] < b[1]
            ELSE IF a[2] = 0 THEN a[1] < 0 ELSE b[1] > 0
       ELSE FracLt(a[1], a[2], b[1], b[2])

\* a > b
DGt(a, b) == DLt(b, a)

\* a <= b ; false when either is NaN.
DLe(a, b) == a # NaN /\ b # NaN /\ ~DLt(b, a)

\* The largest k in lo..hi with k*k <= q  (lo*lo <= q assumed).
RECURSIVE ISqrtIn(_, _, _)
ISqrtIn(q, lo, hi) ==
    IF lo = hi THEN lo
    ELSE LET mid == (lo + hi + 1) \div 2
         IN  IF mid * mid <= q THEN ISqrtIn(q, mid, hi) ELSE ISqrtIn(q, lo, mid - 1)

ISqrt(q) == ISqrtIn(q, 0, 46340)

IsSquare(q) == ISqrt(q) * ISqrt(q) = q

\* <<floor((q + rem/d) * 4^k), k>> for the least k >= j that brings the
\* floor to at least 2^26, or k = 15 if none does.
RECURSIVE Mantissa(_, _, _, _)
Mantissa(q, rem, d, j) ==
    IF q >= 67108864 \/ j >= 15 THEN <<q, j>>
    ELSE Mantissa(4 * q + ((4 * rem) \div d), (4 * rem) % d, d, j + 1)

RECURSIVE Pow2(_)
Pow2(k) == IF k = 0 THEN 1 ELSE 2 * Pow2(k - 1)

\* sqrt(a): NaN for a < 0 and NaN, +inf for +inf, exact on squares.
DSqrt(a) ==
    IF a = NaN \/ a[1] < 0 THEN NaN
    ELSE IF a[2] = 0 THEN PInf
    ELSE IF IsSquare(a[1]) /\ IsSquare(a[2]) THEN <<ISqrt(a[1]), ISqrt(a[2])>>
    ELSE LET m == Mantissa(a[1] \div a[2], a[1] % a[2], a[2], 0)
         IN  Dbl(ISqrt(m[1]), Pow2(m[2]))


----------------------------------------------------------------------------
(* Variable: an element of a vector space, a tuple of doubles *)

VAdd(u, v) == [k \in 1..Len(u) |-> DAdd(u[k], v[k])]

VSub(u, v) == [k \in 1..Len(u) |-> DSub(u[k], v[k])]

VNeg(u) == [k \in 1..Len(u) |-> DNeg(u[k])]

\* scalar * vector
VScale(a, v) == [k \in 1..Len(v) |-> DMul(a, v[k])]

\* vector / scalar
VDiv(v, a) == [k \in 1..Len(v) |-> DDiv(v[k], a)]

RECURSIVE DotFrom(_, _, _)
DotFrom(u, v, k) ==
    IF k > Len(u) THEN Zero ELSE DAdd(DMul(u[k], v[k]), DotFrom(u, v, k + 1))

\* The caller's inner product (inner_product_x, inner_product_r): the
\* Euclidean one.
InnerProduct(u, v) == DotFrom(u, v, 1)

Norm(v) == DSqrt(InnerProduct(v, v))

\* std::max<double>({a, b, c}): the first largest element under operator<.
Max3(a, b, c) ==
    LET m == IF DLt(a, b) THEN b ELSE a
    IN  IF DLt(m, c) THEN c ELSE m

\* A value that was declared and never assigned.
Uninit == <<>>

----------------------------------------------------------------------------
(* The two penalty parameter update rules *)

\* residual_balance_penalty_parameter_update multiplying by tau in both branches.
residual_balance_penalty_parameter_update_NoDivide(primal_residual, dual_residual, mu, tau, rho) ==
    IF DGt(primal_residual, DMul(mu, dual_residual)) THEN DMul(tau, rho)
    ELSE IF DGt(dual_residual, DMul(mu, primal_residual)) THEN DMul(tau, rho)
    ELSE rho

residual_balance_penalty_parameter_update(primal_residual, dual_residual, mu, tau, rho) ==
    IF DGt(primal_residual, DMul(mu, dual_residual)) THEN DMul(tau, rho)
    ELSE IF DGt(dual_residual, DMul(mu, primal_residual)) THEN DDiv(rho, tau)
    ELSE rho

\* The stepsizes and correlations of spectral_penalty_parameter_update
\* (its locals), from the four difference vectors.
SpectralStepsizes(delta_lambda_hat, delta_lambda, delta_H_hat, delta_G_hat) ==
    LET delta_lambda_hat_delta_lambda_hat == InnerProduct(delta_lambda_hat, delta_lambda_hat)
        delta_H_hat_delta_lambda_hat == InnerProduct(delta_H_hat, delta_lambda_hat)
        delta_H_hat_delta_H_hat == InnerProduct(delta_H_hat, delta_H_hat)
        delta_lambda_delta_lambda == InnerProduct(delta_lambda, delta_lambda)
        delta_G_hat_delta_lambda == InnerProduct(delta_G_hat, delta_lambda)
        delta_G_hat_delta_G_hat == InnerProduct(delta_G_hat, delta_G_hat)
        alpha_SD == DDiv(delta_lambda_hat_delta_lambda_hat, delta_H_hat_delta_lambda_hat)
        alpha_MG == DDiv(delta_H_hat_delta_lambda_hat, delta_H_hat_delta_H_hat)
        beta_SD == DDiv(delta_lambda_delta_lambda, delta_G_hat_delta_lambda)
        beta_MG == DDiv(delta_G_hat_delta_lambda, delta_G_hat_delta_G_hat)
        delta_lambda_hat_norm == DSqrt(delta_lambda_hat_delta_lambda_hat)
        delta_lambda_norm == DSqrt(delta_lambda_delta_lambda)
    IN  [alpha_SD |-> alpha_SD,
         alpha_MG |-> alpha_MG,
         beta_SD |-> beta_SD,
         beta_MG |-> beta_MG,
         alpha |-> IF DGt(DMul(Num(2), alpha_MG), alpha_SD)
                   THEN alpha_MG
                   ELSE DSub(alpha_SD, DDiv(alpha_MG, Num(2))),
         beta |-> IF DGt(DMul(Num(2), beta_MG), beta_SD)
                  THEN beta_MG
                  ELSE DSub(beta_SD, DDiv(beta_MG, Num(2))),
         alpha_cor |-> DDiv(delta_H_hat_delta_lambda_hat,
                            DMul(DSqrt(delta_H_hat_delta_H_hat), delta_lambda_hat_norm)),
         beta_cor |-> DDiv(delta_G_hat_delta_lambda,
                           DMul(DSqrt(delta_G_hat_delta_G_hat), delta_lambda_norm))]

\* SpectralSafeguard with the third branch returning alpha, too.
SpectralSafeguard_AlphaTwice(t, eps_cor, rho) ==
    IF DGt(t.alpha_cor, eps_cor) /\ DGt(t.beta_cor, eps_cor)
    THEN DSqrt(DMul(t.alpha, t.beta))
    ELSE IF DGt(t.alpha_cor, eps_cor) /\ DLe(t.beta_cor, eps_cor) THEN t.alpha
    ELSE IF DLe(t.alpha_cor, eps_cor) /\ DGt(t.beta_cor, eps_cor) THEN t.alpha
    ELSE rho

\* SpectralSafeguard without the square root in the first branch.
SpectralSafeguard_Product(t, eps_cor, rho) ==
    IF DGt(t.alpha_cor, eps_cor) /\ DGt(t.beta_cor, eps_cor)
    THEN DMul(t.alpha, t.beta)
    ELSE IF DGt(t.alpha_cor, eps_cor) /\ DLe(t.beta_cor, eps_cor) THEN t.alpha
    ELSE IF DLe(t.alpha_cor, eps_cor) /\ DGt(t.beta_cor, eps_cor) THEN t.beta
    ELSE rho

\* The safeguarding strategy of spectral_penalty_parameter_update.
SpectralSafeguard(t, eps_cor, rho) ==
    IF DGt(t.alpha_cor, eps_cor) /\ DGt(t.beta_cor, eps_cor)
    THEN DSqrt(DMul(t.alpha, t.beta))
    ELSE IF DGt(t.alpha_cor, eps_cor) /\ DLe(t.beta_cor, eps_cor) THEN t.alpha
    ELSE IF DLe(t.alpha_cor, eps_cor) /\ DGt(t.beta_cor, eps_cor) THEN t.beta
    ELSE rho

spectral_penalty_parameter_update(delta_lambda_hat, delta_lambda, delta_H_hat, delta_G_hat, eps_cor, rho) ==
    SpectralSafeguard(
        SpectralStepsizes(delta_lambda_hat, delta_lambda, delta_H_hat, delta_G_hat),
        eps_cor, rho)

----------------------------------------------------------------------------
(* ADMMParams, and the caller's problem *)

VARIABLES
    params,            \* const ADMMParams &params
    problem,           \* the caller's A, B, At, c, x0, y0 and minimizers
    div_by_zero,       \* what this build does on an unsigned i % 0
    pc,                \* the position of the call of ADMM()
    i,                 \* the loop counter
    x, y, lambda,      \* current iterates
    y_prev,            \* previous iterate of y
    rho,               \* current penalty parameter
    Ax, By, r,         \* cached products and the primal residual vector
    primal_residual, dual_residual,
    lambda_hat, x_k0, y_k0, lambda_k0, lambda_hat_k0,
    lambda_hat_at,     \* the iteration that last assigned lambda_hat (-1: none)
    elapsed_time,      \* the last reading of the stopwatch
    iter_field_width,
    eps_history,       \* <<eps_primal, eps_dual>> of every stopping test made
    calls,             \* how often each minimizer has been called
    result,            \* ADMMResult
    args, ret          \* one call of an update rule on its own

vars == <<params, problem, div_by_zero, pc, i, x, y, lambda, y_prev, rho, Ax, By, r,
          primal_residual, dual_residual, lambda_hat, x_k0, y_k0, lambda_k0,
          lambda_hat_k0, lambda_hat_at, elapsed_time, iter_field_width, eps_history, calls,
          result, args, ret>>

\* The default member initializers of ADMMParams.
DefaultParams ==
    [rho |-> Num(1),
     penalty_adaptation_mode |-> "None",
     penalty_adaptation_period |-> 2,
     penalty_adaptation_window |-> 1000,
     residual_balance_mu |-> Num(10),
     residual_balance_tau |-> Num(2),
     spectral_penalty_minimum_correlation |-> Dbl(1, 5),
     eps_abs_pri |-> Dbl(1, 100),
     eps_abs_dual |-> Dbl(1, 100),
     eps_rel |-> Dbl(1, 1000)]

\* The linear operators of the caller: multiples of the identity.
A(v) == VScale(problem.A, v)

B(v) == VScale(problem.B, v)

At(v) == VScale(problem.A, v)

\* The values an arbitrary minimizer may return.
OracleValues == {<<Zero>>, <<Num(1)>>}

\* argmin_x of 1/2 |x - a|^2 + lambda'(Ax + By - c) + rho/2 |Ax + By - c|^2
QuadraticMinX(xx, yy, ll, rh) ==
    VDiv(VSub(VSub(problem.a, A(ll)), VScale(DMul(rh, problem.A), VSub(B(yy), problem.c))),
         DAdd(Num(1), DMul(rh, DMul(problem.A, problem.A))))

\* argmin_y of 1/2 |y - b|^2 + lambda'(Ax + By - c) + rho/2 |Ax + By - c|^2
QuadraticMinY(xx, yy, ll, rh) ==
    VDiv(VSub(VSub(problem.b, B(ll)), VScale(DMul(rh, problem.B), VSub(A(xx), problem.c))),
         DAdd(Num(1), DMul(rh, DMul(problem.B, problem.B))))

\* minLx(x, y, lambda, rho): the values the call may return.
minLx(xx, yy, ll, rh) ==
    IF problem.minimizers = "quadratic" THEN {QuadraticMinX(xx, yy, ll, rh)}
    ELSE OracleValues

\* minLy(x, y, lambda, rho): the values the call may return.
minLy(xx, yy, ll, rh) ==
    IF problem.minimizers = "quadratic" THEN {QuadraticMinY(xx, yy, ll, rh)}
    ELSE OracleValues

----------------------------------------------------------------------------
(* ADMM(): initialization *)

\* floor(log10(n)) + 1 for n >= 1: the number of decimal digits of n.
RECURSIVE Digits(_)
Digits(n) == IF n < 10 THEN 1 ELSE 1 + Digits(n \div 10)

\* unsigned int iter_field_width = floor(log10(max_iterations)) + 1.
\* For max_iterations = 0 this converts -infinity to unsigned int, which is
\* undefined: any value may result.
IterFieldWidths(max_iterations) ==
    IF max_iterations = 0 THEN {0, 1} ELSE {Digits(max_iterations)}

\* The state of ADMM(..., c, x0, y0, params) on entering its loop.
InitADMM(pr, pb) ==
    /\ params = pr
    /\ problem = pb
    /\ pc = "loop"
    /\ i = 0
    /\ x = pb.x0
    /\ y = pb.y0
    /\ y_prev = pb.y0
    /\ rho = pr.rho
    /\ lambda = VScale(pr.rho, VSub(VAdd(VScale(pb.A, pb.x0), VScale(pb.B, pb.y0)), pb.c))
    /\ Ax = Uninit
    /\ By = Uninit
    /\ r = Uninit
    /\ primal_residual = Uninit
    /\ dual_residual = Uninit
    /\ lambda_hat = Uninit
    /\ lambda_hat_at = -1
    /\ IF pr.penalty_adaptation_mode = "Spectral"
       THEN /\ x_k0 = x
            /\ y_k0 = y
            /\ lambda_k0 = lambda
            /\ lambda_hat_k0 = lambda
       ELSE /\ x_k0 = Uninit
            /\ y_k0 = Uninit
            /\ lambda_k0 = Uninit
            /\ lambda_hat_k0 = Uninit
    /\ elapsed_time = 0
    /\ iter_field_width \in IterFieldWidths(pr.max_iterations)
    /\ eps_history = <<>>
    /\ calls = [minLx |-> 0, minLy |-> 0]
    /\ result = [status |-> "ITERATION_LIMIT",
                 time |-> <<>>,
                 primal_residuals |-> <<>>,
                 dual_residuals |-> <<>>,
                 penalty_parameters |-> <<>>,
                 iterates |-> <<>>,
                 x |-> Uninit,
                 elapsed_time |-> Uninit]
    /\ args = Uninit
    /\ ret = Uninit

----------------------------------------------------------------------------
(* ADMM(): the loop *)

\* The largest reading the stopwatch gives.
MaxClock == 1

\* Stopwatch::tock(start_time): the clock is monotonic.
Tock == elapsed_time..MaxClock

\* elapsed_time > params.max_computation_time
TimeExceeded(t) == t > params.max_computation_time

\* (i % params.penalty_adaptation_period) == 0.  For a period of 0 the
\* remainder is undefined: the build either traps (DivideByZeroTrap) or
\* yields the dividend.
PeriodDivides(k) ==
    IF params.penalty_adaptation_period = 0
    THEN div_by_zero = "dividend" /\ k = 0
    ELSE k % params.penalty_adaptation_period = 0

ModuloTraps == params.penalty_adaptation_period = 0 /\ div_by_zero = "trap"

\* The condition guarding the computation of lambda_hat.
SpectralTrigger(k) ==
    /\ params.penalty_adaptation_mode = "Spectral"
    /\ PeriodDivides(k)
    /\ k < params.penalty_adaptation_window

\* AdaptationTrigger without the test of the adaptation window.
AdaptationTrigger_NoWindow(k) ==
    /\ params.penalty_adaptation_mode # "None"
    /\ PeriodDivides(k)

\* The condition guarding the penalty parameter update.
AdaptationTrigger(k) ==
    /\ params.penalty_adaptation_mode # "None"
    /\ PeriodDivides(k)
    /\ k < params.penalty_adaptation_window

\* eps_primal
EpsPrimal(ax, by) ==
    DAdd(params.eps_abs_pri,
         DMul(params.eps_rel, Max3(Norm(ax), Norm(by), Norm(problem.c))))

\* eps_dual
EpsDual(ll) == DAdd(params.eps_abs_dual, DMul(params.eps_rel, Norm(At(ll))))

\* StoppingCriterion with || in place of &&.
StoppingCriterion_Or(p, d, eps_primal, eps_dual) == DLt(p, eps_primal) \/ DLt(d, eps_dual)

\* The residual-based stopping criterion.
StoppingCriterion(p, d, eps_primal, eps_dual) == DLt(p, eps_primal) /\ DLt(d, eps_dual)

loopLocals == <<Ax, By, r, primal_residual, dual_residual>>

spectralVars == <<lambda_hat, lambda_hat_at, x_k0, y_k0, lambda_k0, lambda_hat_k0>>

fixed == <<params, problem, div_by_zero, iter_field_width, args, ret>>

\* for (...; i < params.max_iterations; ...): the loop ends.
LoopExit ==
    /\ pc = "loop"
    /\ ~(i < params.max_iterations)
    /\ pc' = "finish"
    /\ UNCHANGED <<i, x, y, lambda, y_prev, rho, loopLocals, spectralVars,
                   elapsed_time, eps_history, calls, result, fixed>>

\* ElapsedTimeBreak without the assignment of result.status.
ElapsedTimeBreak_NoStatus ==
    /\ pc = "loop"
    /\ i < params.max_iterations
    /\ \E t \in Tock :
        /\ TimeExceeded(t)
        /\ elapsed_time' = t
    /\ pc' = "finish"
    /\ UNCHANGED <<i, x, y, lambda, y_prev, rho, loopLocals, spectralVars,
                   eps_history, calls, result, fixed>>

\* ElapsedTimeBreak with the elapsed-time test placed after the x update.
ElapsedTimeBreak_Late ==
    /\ pc = "loop"
    /\ i < params.max_iterations
    /\ \E t \in Tock :
        /\ TimeExceeded(t)
        /\ elapsed_time' = t
    /\ x' \in minLx(x, y, lambda, rho)
    /\ calls' = [calls EXCEPT !.minLx = @ + 1]
    /\ result' = [result EXCEPT !.status = "ELAPSED_TIME"]
    /\ pc' = "finish"
    /\ UNCHANGED <<i, y, lambda, y_prev, rho, loopLocals, spectralVars,
                   eps_history, fixed>>

\* The elapsed-time test succeeds: break.
ElapsedTimeBreak ==
    /\ pc = "loop"
    /\ i < params.max_iterations
    /\ \E t \in Tock :
        /\ TimeExceeded(t)
        /\ elapsed_time' = t
    /\ result' = [result EXCEPT !.status = "ELAPSED_TIME"]
    /\ pc' = "finish"
    /\ UNCHANGED <<i, x, y, lambda, y_prev, rho, loopLocals, spectralVars,
                   eps_history, calls, fixed>>

\* The elapsed-time test fails: the iteration starts.
IterationStart ==
    /\ pc = "loop"
    /\ i < params.max_iterations
    /\ \E t \in Tock :
        /\ ~TimeExceeded(t)
        /\ elapsed_time' = t
    /\ pc' = "min_x"
    /\ UNCHANGED <<i, x, y, lambda, y_prev, rho, loopLocals, spectralVars,
                   eps_history, calls, result, fixed>>

\* x = minLx(x, y, lambda, rho, args...)
MinimizeX ==
    /\ pc = "min_x"
    /\ x' \in minLx(x, y, lambda, rho)
    /\ calls' = [calls EXCEPT !.minLx = @ + 1]
    /\ pc' = "min_y"
    /\ UNCHANGED <<i, y, lambda, y_prev, rho, loopLocals, spectralVars,
                   elapsed_time, eps_history, result, fixed>>

\* y = minLy(x, y, lambda, rho, args...)
MinimizeY ==
    /\ pc = "min_y"
    /\ y' \in minLy(x, y, lambda, rho)
    /\ calls' = [calls EXCEPT !.minLy = @ + 1]
    /\ pc' = "primal"
    /\ UNCHANGED <<i, x, lambda, y_prev, rho, loopLocals, spectralVars,
                   elapsed_time, eps_history, result, fixed>>

\* PrimalResidual with lambda_hat computed from B(y) in place of B(y_prev).
PrimalResidual_NewY ==
    /\ pc = "primal"
    /\ ~(params.penalty_adaptation_mode = "Spectral" /\ ModuloTraps)
    /\ Ax' = A(x)
    /\ By' = B(y)
    /\ r' = VSub(VAdd(A(x), B(y)), problem.c)
    /\ lambda_hat' =
          IF SpectralTrigger(i)
          THEN VAdd(lambda, VScale(rho, VSub(VAdd(A(x), B(y)), problem.c)))
          ELSE lambda_hat
    /\ lambda_hat_at' = IF SpectralTrigger(i) THEN i ELSE lambda_hat_at
    /\ pc' = "dual"
    /\ UNCHANGED <<i, x, y, lambda, y_prev, rho, primal_residual, dual_residual,
                   x_k0, y_k0, lambda_k0, lambda_hat_k0,
                   elapsed_time, eps_history, calls, result, fixed>>

\* Ax, By, r, and lambda_hat *before* updating lambda.
PrimalResidual ==
    /\ pc = "primal"
    /\ ~(params.penalty_adaptation_mode = "Spectral" /\ ModuloTraps)
    /\ Ax' = A(x)
    /\ By' = B(y)
    /\ r' = VSub(VAdd(A(x), B(y)), problem.c)
    /\ lambda_hat' =
          IF SpectralTrigger(i)
          THEN VAdd(lambda, VScale(rho, VSub(VAdd(A(x), B(y_prev)), problem.c)))
          ELSE lambda_hat
    /\ lambda_hat_at' = IF SpectralTrigger(i) THEN i ELSE lambda_hat_at
    /\ pc' = "dual"
    /\ UNCHANGED <<i, x, y, lambda, y_prev, rho, primal_residual, dual_residual,
                   x_k0, y_k0, lambda_k0, lambda_hat_k0,
                   elapsed_time, eps_history, calls, result, fixed>>

\* DualUpdate with lambda - rho * r.
DualUpdate_Minus ==
    /\ pc = "dual"
    /\ lambda' = VSub(lambda, VScale(rho, r))
    /\ LET s == VScale(rho, At(B(VSub(y, y_prev))))
       IN  /\ primal_residual' = Norm(r)
           /\ dual_residual' = Norm(s)
    /\ result' = [result EXCEPT
                    !.time = Append(@, elapsed_time),
                    !.primal_residuals = Append(@, primal_residual'),
                    !.dual_residuals = Append(@, dual_residual'),
                    !.penalty_parameters = Append(@, rho),
                    !.iterates = IF params.log_iterates
                                 THEN Append(@, <<x, y>>)
                                 ELSE @]
    /\ pc' = "stop_test"
    /\ UNCHANGED <<i, x, y, y_prev, rho, Ax, By, r, spectralVars,
                   elapsed_time, eps_history, calls, fixed>>

\* The dual update, the dual residual, both norms, and the record of them.
DualUpdate ==
    /\ pc = "dual"
    /\ lambda' = VAdd(lambda, VScale(rho, r))
    /\ LET s == VScale(rho, At(B(VSub(y, y_prev))))
       IN  /\ primal_residual' = Norm(r)
           /\ dual_residual' = Norm(s)
    /\ result' = [result EXCEPT
                    !.time = Append(@, elapsed_time),
                    !.primal_residuals = Append(@, primal_residual'),
                    !.dual_residuals = Append(@, dual_residual'),
                    !.penalty_parameters = Append(@, rho),
                    !.iterates = IF params.log_iterates
                                 THEN Append(@, <<x, y>>)
                                 ELSE @]
    /\ pc' = "stop_test"
    /\ UNCHANGED <<i, x, y, y_prev, rho, Ax, By, r, spectralVars,
                   elapsed_time, eps_history, calls, fixed>>

\* The stopping tolerances and the residual-based stopping criterion.
StopTest ==
    /\ pc = "stop_test"
    /\ LET eps_primal == EpsPrimal(Ax, By)
           eps_dual == EpsDual(lambda)
       IN  /\ eps_history' = Append(eps_history, <<eps_primal, eps_dual>>)
           /\ IF StoppingCriterion(primal_residual, dual_residual, eps_primal, eps_dual)
              THEN /\ result' = [result EXCEPT !.status = "RESIDUAL_TOLERANCE"]
                   /\ pc' = "finish"
              ELSE /\ result' = result
                   /\ pc' = "penalty"
    /\ UNCHANGED <<i, x, y, lambda, y_prev, rho, loopLocals, spectralVars,
                   elapsed_time, calls, fixed>>

\* PenaltyUpdate recording the penalty parameter after its adaptation.
PenaltyUpdate_RecordAfter ==
    /\ pc = "penalty"
    /\ ~(params.penalty_adaptation_mode # "None" /\ ModuloTraps)
    /\ IF AdaptationTrigger(i) /\ params.penalty_adaptation_mode = "Residual_Balance"
       THEN /\ rho' = residual_balance_penalty_parameter_update(
                          primal_residual, dual_residual,
                          params.residual_balance_mu, params.residual_balance_tau, rho)
            /\ UNCHANGED <<x_k0, y_k0, lambda_k0, lambda_hat_k0>>
       ELSE IF AdaptationTrigger(i) /\ params.penalty_adaptation_mode = "Spectral"
       THEN /\ LET delta_lambda == VSub(lambda, lambda_k0)
                   delta_lambda_hat == VSub(lambda_hat, lambda_hat_k0)
                   delta_H == VNeg(A(VSub(x, x_k0)))
                   delta_G == VNeg(B(VSub(y, y_k0)))
               IN  rho' = spectral_penalty_parameter_update(
                              delta_lambda_hat, delta_lambda, delta_H, delta_G,
                              params.spectral_penalty_minimum_correlation, rho)
            /\ x_k0' = x
            /\ y_k0' = y
            /\ lambda_k0' = lambda
            /\ lambda_hat_k0' = lambda_hat
       ELSE UNCHANGED <<rho, x_k0, y_k0, lambda_k0, lambda_hat_k0>>
    /\ y_prev' = y
    /\ i' = i + 1
    /\ pc' = "loop"
    /\ result' = [result EXCEPT
                    !.penalty_parameters = [@ EXCEPT ![Len(@)] = rho']]
    /\ UNCHANGED <<x, y, lambda, loopLocals, lambda_hat, lambda_hat_at,
                   elapsed_time, eps_history, calls, fixed>>

\* The penalty parameter update, y_prev = y, and ++i.
PenaltyUpdate ==
    /\ pc = "penalty"
    /\ ~(params.penalty_adaptation_mode # "None" /\ ModuloTraps)
    /\ IF AdaptationTrigger(i) /\ params.penalty_adaptation_mode = "Residual_Balance"
       THEN /\ rho' = residual_balance_penalty_parameter_update(
                          primal_residual, dual_residual,
                          params.residual_balance_mu, params.residual_balance_tau, rho)
            /\ UNCHANGED <<x_k0, y_k0, lambda_k0, lambda_hat_k0>>
       ELSE IF AdaptationTrigger(i) /\ params.penalty_adaptation_mode = "Spectral"
       THEN /\ LET delta_lambda == VSub(lambda, lambda_k0)
                   delta_lambda_hat == VSub(lambda_hat, lambda_hat_k0)
                   delta_H == VNeg(A(VSub(x, x_k0)))
                   delta_G == VNeg(B(VSub(y, y_k0)))
               IN  rho' = spectral_penalty_parameter_update(
                              delta_lambda_hat, delta_lambda, delta_H, delta_G,
                              params.spectral_penalty_minimum_correlation, rho)
            /\ x_k0' = x
            /\ y_k0' = y
            /\ lambda_k0' = lambda
            /\ lambda_hat_k0' = lambda_hat
       ELSE UNCHANGED <<rho, x_k0, y_k0, lambda_k0, lambda_hat_k0>>
    /\ y_prev' = y
    /\ i' = i + 1
    /\ pc' = "loop"
    /\ UNCHANGED <<x, y, lambda, loopLocals, lambda_hat, lambda_hat_at,
                   elapsed_time, eps_history, calls, result, fixed>>

\* i % 0 on a build whose unsigned division by zero traps: the process dies.
DivideByZeroTrap ==
    /\ ModuloTraps
    /\ params.penalty_adaptation_mode # "None"
    /\ pc = IF params.penalty_adaptation_mode = "Spectral" THEN "primal" ELSE "penalty"
    /\ pc' = "crashed"
    /\ UNCHANGED <<i, x, y, lambda, y_prev, rho, loopLocals, spectralVars,
                   elapsed_time, eps_history, calls, result, fixed>>

\* result.x = {x, y}; result.elapsed_time = Stopwatch::tock(start_time); return.
Return ==
    /\ pc = "finish"
    /\ \E t \in Tock :
        /\ elapsed_time' = t
        /\ result' = [result EXCEPT !.x = <<x, y>>, !.elapsed_time = t]
    /\ pc' = "done"
    /\ UNCHANGED <<i, x, y, lambda, y_prev, rho, loopLocals, spectralVars,
                   eps_history, calls, fixed>>

----------------------------------------------------------------------------
(* Spec: ADMM() with arbitrary minimizers on a one-dimensional problem *)

\* The largest max_iterations.
MaxIter == 3

\* Stopping tolerances <<eps_abs_pri, eps_abs_dual, eps_rel>>.
Tolerances == {<<Zero, Zero, Zero>>, <<Dbl(1, 2), Dbl(1, 4), Num(1)>>}

\* <<penalty_adaptation_period, penalty_adaptation_window>>
Schedules == {<<1, 2>>, <<2, 3>>, <<0, 2>>, <<1, 0>>}

\* <<residual_balance_mu, residual_balance_tau>>
BalanceFactors ==
    {<<Num(2), Num(2)>>, <<Num(2), Dbl(1, 2)>>, <<Num(2), Num(-1)>>, <<Dbl(1, 2), Num(2)>>}

\* Penalty settings per adaptation mode; values outside the documented
\* ranges are included, since ADMM() validates none of them.
PenaltySettings ==
    {[DefaultParams EXCEPT !.rho = rh] : rh \in {Num(1), Num(-1)}}
    \cup
    {[DefaultParams EXCEPT !.penalty_adaptation_mode = "Residual_Balance",
                           !.penalty_adaptation_period = sc[1],
                           !.penalty_adaptation_window = sc[2],
                           !.residual_balance_mu = bf[1],
                           !.residual_balance_tau = bf[2]] :
        sc \in Schedules, bf \in BalanceFactors}
    \cup
    {[DefaultParams EXCEPT !.rho = Num(2),
                           !.penalty_adaptation_mode = "Spectral",
                           !.penalty_adaptation_period = sc[1],
                           !.penalty_adaptation_window = sc[2],
                           !.spectral_penalty_minimum_correlation = ec] :
        sc \in Schedules, ec \in {Dbl(1, 5), Dbl(-1, 2)}}

\* The inherited OptimizerParams members that ADMM() reads: every iteration
\* limit under a time budget of 0, and one run that logs its iterates under
\* a budget the clock never exceeds.
Budgets ==
    {[max_iterations |-> k, max_computation_time |-> 0, log_iterates |-> FALSE] :
        k \in 0..MaxIter}
    \cup
    {[max_iterations |-> 2, max_computation_time |-> MaxClock, log_iterates |-> TRUE]}

WithTolerances(ps, tol) ==
    [ps EXCEPT !.eps_abs_pri = tol[1], !.eps_abs_dual = tol[2], !.eps_rel = tol[3]]

\* Record ps extended by the fields of record bs.
Extend(ps, bs) ==
    [f \in DOMAIN ps \cup DOMAIN bs |-> IF f \in DOMAIN bs THEN bs[f] ELSE ps[f]]

ParamsSet ==
    {Extend(WithTolerances(ps, tol), bs) :
        ps \in PenaltySettings, tol \in Tolerances, bs \in Budgets}

\* x - y = 0 in one dimension (A = 1, B = -1, c = 0): once with minimizers
\* that may return anything, and with the exact minimizers of
\* f(x) = 1/2 (x - 1)^2 and g(y) = 1/2 (y - 3)^2 from two starting points.
Problems ==
    {[A |-> Num(1), B |-> Num(-1), c |-> <<Zero>>,
      x0 |-> <<Zero>>, y0 |-> <<Zero>>,
      minimizers |-> "any", a |-> <<Zero>>, b |-> <<Zero>>]}
    \cup
    {[A |-> Num(1), B |-> Num(-1), c |-> <<Zero>>,
      x0 |-> <<Zero>>, y0 |-> <<y0>>,
      minimizers |-> "quadratic", a |-> <<Num(1)>>, b |-> <<Num(3)>>] :
        y0 \in {Zero, Num(1)}}

\* An unsigned division by zero traps, or leaves the dividend as remainder.
DivByZeroOutcomes(pr) ==
    IF pr.penalty_adaptation_mode # "None" /\ pr.penalty_adaptation_period = 0
    THEN {"trap", "dividend"}
    ELSE {"none"}

Init ==
    \E pr \in ParamsSet, pb \in Problems :
        /\ InitADMM(pr, pb)
        /\ div_by_zero \in DivByZeroOutcomes(pr)

Next ==
    \/ LoopExit
    \/ ElapsedTimeBreak
    \/ IterationStart
    \/ MinimizeX
    \/ MinimizeY
    \/ PrimalResidual
    \/ DualUpdate
    \/ StopTest
    \/ PenaltyUpdate
    \/ DivideByZeroTrap
    \/ Return

Spec == Init /\ [][Next]_vars

TypeOK ==
    pc \in {"loop", "min_x", "min_y", "primal", "dual", "stop_test", "penalty", "finish",
            "done", "crashed", "call", "returned"}

----------------------------------------------------------------------------
(* Properties of ADMM() under Spec *)

Mode == params.penalty_adaptation_mode

Period == params.penalty_adaptation_period

Window == params.penalty_adaptation_window

Telemetry ==
    <<result.time, result.primal_residuals, result.dual_residuals, result.penalty_parameters>>

\* The penalty settings are in the ranges the parameters' comments ask for,
\* as far as the sign of rho depends on them.
ValidPenaltyParams ==
    /\ DGt(params.rho, Zero)
    /\ Mode = "Residual_Balance" => DGt(params.residual_balance_tau, Zero)
    /\ Mode = "Spectral" => DLe(Zero, params.spectral_penalty_minimum_correlation)

\* C1 as stated: rho > 0 at the start of every loop iteration for every
\* configuration, validated or not, and every adaptation mode.  (Stated where
\* the exclusion of the claim, a spectral update with zero denominators,
\* cannot apply: before the first iteration, and in the other two modes.)
C1_RhoPositiveEveryConfiguration ==
    (pc = "loop" /\ (i = 0 \/ Mode # "Spectral")) => DGt(rho, Zero)

\* C1, amended: rho > 0 at the start of every loop iteration, in every
\* adaptation mode, when params.rho > 0, residual_balance_tau > 0 (mode
\* Residual_Balance) and spectral_penalty_minimum_correlation >= 0 (mode
\* Spectral); zero denominators in the spectral update included.
C1_RhoPositive ==
    (ValidPenaltyParams /\ pc = "loop") => DGt(rho, Zero)

\* An iteration starts with a penalty parameter that adaptation has changed.
C1_Witness ==
    /\ ValidPenaltyParams
    /\ Mode = "Spectral"
    /\ pc = "loop"
    /\ i > 0
    /\ rho # params.rho
    /\ DGt(rho, Zero)

\* C2: rho changes during iteration i only if mode # None, i mod period = 0
\* and i < window (for a period >= 1, where the remainder is defined); so it
\* never changes in mode None, nor from iteration `window` onward.
C2_TriggerGating ==
    [][Period >= 1 =>
          /\ rho' # rho => (Mode # "None" /\ i % Period = 0 /\ i < Window)
          /\ Mode = "None" => rho' = rho
          /\ i >= Window => rho' = rho]_vars

\* rho was adapted, and then iteration 2 ran outside the window of 2.
C2_Witness ==
    /\ Mode # "None"
    /\ Period = 1
    /\ Window = 2
    /\ pc = "loop"
    /\ i = 3
    /\ rho # params.rho

\* The stopping tolerances of the iteration being tested, written out:
\* eps_abs_pri + eps_rel * max(|Ax|, |By|, |c|) with the products of the new
\* x and y, and eps_abs_dual + eps_rel * |At lambda|.
TolerancePrimal ==
    DAdd(params.eps_abs_pri,
         DMul(params.eps_rel,
              Max3(DSqrt(InnerProduct(VScale(problem.A, x), VScale(problem.A, x))),
                   DSqrt(InnerProduct(VScale(problem.B, y), VScale(problem.B, y))),
                   DSqrt(InnerProduct(problem.c, problem.c)))))

ToleranceDual ==
    DAdd(params.eps_abs_dual,
         DMul(params.eps_rel,
              DSqrt(InnerProduct(VScale(problem.A, lambda), VScale(problem.A, lambda)))))

\* The k-th recorded residual pair is below the tolerances of iteration k-1.
RecordedPairPasses(k) ==
    /\ DLt(result.primal_residuals[k], eps_history[k][1])
    /\ DLt(result.dual_residuals[k], eps_history[k][2])

C4_NonStrictTermination ==
    [][(pc = "stop_test" /\ DLe(primal_residual, TolerancePrimal)
                         /\ DLe(dual_residual, ToleranceDual))
          => (pc' = "finish" /\ result'.status = "RESIDUAL_TOLERANCE")]_vars

\* C5: a returned status is one of the three, and it is ITERATION_LIMIT
\* exactly when all max_iterations iterations ran without a stop, each of the
\* four telemetry sequences then holding max_iterations entries (0 included);
\* a stop by the residual test or the time budget happens on an iteration
\* below max_iterations and never returns ITERATION_LIMIT.
C5_OneStatusAndIterationLimitLength ==
    /\ result.status \in {"RESIDUAL_TOLERANCE", "ITERATION_LIMIT", "ELAPSED_TIME"}
    /\ pc = "done" =>
         \/ /\ result.status = "ITERATION_LIMIT"
            /\ i = params.max_iterations
            /\ \A k \in 1..4 : Len(Telemetry[k]) = params.max_iterations
         \/ /\ result.status = "RESIDUAL_TOLERANCE"
            /\ i < params.max_iterations
            /\ \A k \in 1..4 : Len(Telemetry[k]) = i + 1
         \/ /\ result.status = "ELAPSED_TIME"
            /\ i < params.max_iterations
            /\ \A k \in 1..4 : Len(Telemetry[k]) = i

\* A call ran all of its two or more iterations and returned ITERATION_LIMIT.
C5_Witness ==
    /\ pc = "done"
    /\ result.status = "ITERATION_LIMIT"
    /\ params.max_iterations >= 2
    /\ Len(result.time) = params.max_iterations

\* C6: when the time read at the top of iteration i exceeds
\* max_computation_time the call sets ELAPSED_TIME and leaves the loop at
\* once: neither minimizer has been called in iteration i (each was called i
\* times), and x, y, lambda, rho and the telemetry keep the values of the end
\* of iteration i-1, the initial ones for i = 0, up to the return.
C6_ElapsedTimeFirst ==
    [][/\ pc = "loop" =>
            /\ calls.minLx = i /\ calls.minLy = i
            /\ \A k \in 1..4 : Len(Telemetry[k]) = i
            /\ i = 0 => /\ x = problem.x0 /\ y = problem.y0 /\ rho = params.rho
                        /\ lambda = VScale(params.rho,
                                        VSub(VAdd(A(problem.x0), B(problem.y0)), problem.c))
       /\ (pc = "loop" /\ i < params.max_iterations
                       /\ elapsed_time' > params.max_computation_time) =>
            /\ pc' = "finish"
            /\ result'.status = "ELAPSED_TIME"
            /\ UNCHANGED <<i, x, y, lambda, rho, calls, Telemetry>>
       /\ (pc = "loop" /\ i < params.max_iterations
                       /\ ~(elapsed_time' > params.max_computation_time)) =>
            pc' = "min_x"
       /\ pc = "finish" =>
            /\ pc' = "done"
            /\ result'.x = <<x, y>>
            /\ UNCHANGED <<i, x, y, lambda, rho, calls, Telemetry>>
            /\ result'.status = result.status
       /\ result'.status = "ELAPSED_TIME" => pc' \in {"finish", "done"}
      ]_vars

\* A call returned ELAPSED_TIME from the top of its second iteration.
C6_Witness ==
    /\ pc = "done"
    /\ result.status = "ELAPSED_TIME"
    /\ i = 1
    /\ calls = [minLx |-> 1, minLy |-> 1]
    /\ Len(result.time) = 1

\* C10: in mode Spectral, on an iteration i with i mod period = 0 and
\* i < window, lambda_hat is set to lambda + rho (A x + B y_prev - c) with the
\* new x, the y of the previous iteration and the lambda not yet updated; the
\* dual update follows; the spectral update of that iteration reads the
\* lambda_hat of that iteration and then sets the checkpoint to the current
\* (x, y, lambda, lambda_hat).
C10_LambdaHatFresh ==
    [][(Mode = "Spectral" /\ Period >= 1 /\ i % Period = 0 /\ i < Window) =>
          /\ pc = "primal" =>
               /\ lambda_hat' = VAdd(lambda, VScale(rho, VSub(VAdd(A(x), B(y_prev)), problem.c)))
               /\ lambda_hat_at' = i
               /\ UNCHANGED <<lambda, y_prev, x, y>>
               /\ calls.minLx = i + 1
               /\ Len(result.time) = i
          /\ pc = "dual" =>
               /\ lambda' = VAdd(lambda, VScale(rho, r))
               /\ lambda_hat_at = i
               /\ UNCHANGED <<lambda_hat, y_prev>>
          /\ pc = "penalty" =>
               /\ lambda_hat_at = i
               /\ rho' = spectral_penalty_parameter_update(
                             VSub(lambda_hat, lambda_hat_k0), VSub(lambda, lambda_k0),
                             VNeg(A(VSub(x, x_k0))), VNeg(B(VSub(y, y_k0))),
                             params.spectral_penalty_minimum_correlation, rho)
               /\ x_k0' = x /\ y_k0' = y /\ lambda_k0' = lambda /\ lambda_hat_k0' = lambda_hat
               /\ UNCHANGED <<lambda_hat, lambda>>
               /\ y_prev' = y]_vars

\* A second spectral update has run: lambda_hat of iteration 1 differs from
\* the one B(y) would have given, and the checkpoint holds the iterates.
C10_Witness ==
    /\ Mode = "Spectral"
    /\ Period = 1
    /\ pc = "loop"
    /\ i = 2
    /\ lambda_hat_at = 1
    /\ lambda_hat_k0 = lambda_hat
    /\ lambda_k0 = lambda
    /\ x_k0 = x /\ y_k0 = y
    /\ lambda_hat # lambda

\* C11: at every iteration boundary time, primal_residuals, dual_residuals
\* and penalty_parameters have one length, the number of iterations that got
\* past the elapsed-time test (each of which called both minimizers once), and
\* iterates has that length if log_iterates is set and is empty otherwise.
\* The rho of an iteration is fixed from its start to its stopping test: it
\* is the rho given to minLx and minLy, used in the dual update and the dual
\* residual, and appended as entry i; the adaptation step that follows leaves
\* the recorded entries alone, so its rho first shows in the next entry.
C11_TelemetryInvariant ==
    [][/\ pc' \in {"loop", "finish", "done"} =>
            /\ \A k \in 1..4 : Len(Telemetry[k]') = calls'.minLx
            /\ calls'.minLy = calls'.minLx
            /\ Len(result'.iterates) = IF params.log_iterates THEN calls'.minLx ELSE 0
            /\ pc' = "loop" => calls'.minLx = i'
       /\ pc \in {"min_x", "min_y", "primal", "dual", "stop_test"} => rho' = rho
       /\ pc = "loop" => (rho' = rho /\ result'.penalty_parameters = result.penalty_parameters)
       /\ pc = "min_x" =>
            /\ x' \in minLx(x, y, lambda, rho)
            /\ Len(result.penalty_parameters) = i
       /\ pc = "min_y" => y' \in minLy(x, y, lambda, rho)
       /\ pc = "dual" =>
            /\ lambda' = VAdd(lambda, VScale(rho, r))
            /\ dual_residual' = Norm(VScale(rho, At(B(VSub(y, y_prev)))))
            /\ result'.penalty_parameters = Append(result.penalty_parameters, rho)
            /\ result'.time = Append(result.time, elapsed_time)
            /\ result'.primal_residuals = Append(result.primal_residuals, primal_residual')
            /\ result'.dual_residuals = Append(result.dual_residuals, dual_residual')
            /\ result'.iterates = IF params.log_iterates
                                  THEN Append(result.iterates, <<x, y>>)
                                  ELSE <<>>
            /\ Len(result'.penalty_parameters) = i + 1
       /\ pc \in {"stop_test", "penalty"} =>
            /\ Len(result.penalty_parameters) = i + 1
            /\ result.penalty_parameters[i + 1] = rho
            /\ Telemetry' = Telemetry
            /\ result'.iterates = result.iterates
       /\ (pc = "penalty" /\ pc' = "loop") => i' = i + 1
      ]_vars

\* A call that logs its iterates has returned after two iterations, the
\* second of which ran and was recorded with the rho that the adaptation step
\* of the first had changed.
C11_Witness ==
    /\ pc = "done"
    /\ params.log_iterates
    /\ Mode = "Residual_Balance"
    /\ Len(result.iterates) = 2
    /\ Len(result.penalty_parameters) = 2
    /\ result.penalty_parameters[1] = params.rho
    /\ result.penalty_parameters[2] # params.rho
    /\ result.penalty_parameters[2] = rho

----------------------------------------------------------------------------
(* SpecRB: residual_balance_penalty_parameter_update called on its own *)

\* No call of ADMM() is in progress.
NoSolve ==
    /\ params = DefaultParams
    /\ problem = Uninit
    /\ div_by_zero = "none"
    /\ i = 0
    /\ x = Uninit /\ y = Uninit /\ lambda = Uninit /\ y_prev = Uninit
    /\ rho = Uninit
    /\ Ax = Uninit /\ By = Uninit /\ r = Uninit
    /\ primal_residual = Uninit /\ dual_residual = Uninit
    /\ lambda_hat = Uninit /\ lambda_hat_at = -1
    /\ x_k0 = Uninit /\ y_k0 = Uninit /\ lambda_k0 = Uninit /\ lambda_hat_k0 = Uninit
    /\ elapsed_time = 0
    /\ iter_field_width = 0
    /\ eps_history = <<>>
    /\ calls = [minLx |-> 0, minLy |-> 0]
    /\ result = Uninit

solveVars ==
    <<params, problem, div_by_zero, i, x, y, lambda, y_prev, rho, loopLocals, spectralVars,
      elapsed_time, iter_field_width, eps_history, calls, result>>

\* Values of the two residual arguments: any double, negative ones, +inf and
\* NaN included.
ResidualValues ==
    {Num(-3), Num(-2), Num(-1), Zero, Dbl(1, 2), Num(1), Num(2), Num(3), Num(4), PInf, NaN}

\* mu > 1, tau > 1, rho > 0.
BalanceArguments ==
    [primal_residual : ResidualValues, dual_residual : ResidualValues,
     mu : {Dbl(3, 2), Num(2)}, tau : {Num(2), Num(3)}, rho : {Dbl(1, 2), Num(3)}]

InitRB ==
    /\ NoSolve
    /\ pc = "call"
    /\ args \in BalanceArguments
    /\ ret = Uninit

CallResidualBalance ==
    /\ pc = "call"
    /\ "mu" \in DOMAIN args
    /\ ret' = residual_balance_penalty_parameter_update(
                  args.primal_residual, args.dual_residual, args.mu, args.tau, args.rho)
    /\ pc' = "returned"
    /\ UNCHANGED <<solveVars, args>>

NextRB == CallResidualBalance

SpecRB == InitRB /\ [][NextRB]_vars

\* C7 as stated: for all p, d and mu > 1, tau > 1, rho > 0 the result is
\* tau rho when p > mu d, rho / tau when d > mu p, and rho otherwise.
C7_ThreeCasesForAllResiduals ==
    pc = "returned" =>
        LET p == args.primal_residual
            d == args.dual_residual
        IN  /\ DGt(p, DMul(args.mu, d)) => ret = DMul(args.tau, args.rho)
            /\ DGt(d, DMul(args.mu, p)) => ret = DDiv(args.rho, args.tau)
            /\ (~DGt(p, DMul(args.mu, d)) /\ ~DGt(d, DMul(args.mu, p))) => ret = args.rho

\* C7, amended: the three cases as stated for p, d that are not negative,
\* where p > mu d and d > mu p exclude each other; for any p, d the result is
\* tau rho when p > mu d, rho / tau when d > mu p but not p > mu d, and rho
\* when neither holds.
C7_ThreeCases ==
    pc = "returned" =>
        LET p == args.primal_residual
            d == args.dual_residual
            grow == DGt(p, DMul(args.mu, d))
            shrink == DGt(d, DMul(args.mu, p))
        IN  /\ (~DLt(p, Zero) /\ ~DLt(d, Zero)) =>
                 /\ ~(grow /\ shrink)
                 /\ grow => ret = DMul(args.tau, args.rho)
                 /\ shrink => ret = DDiv(args.rho, args.tau)
                 /\ (~grow /\ ~shrink) => ret = args.rho
            /\ grow => ret = DMul(args.tau, args.rho)
            /\ (shrink /\ ~grow) => ret = DDiv(args.rho, args.tau)
            /\ (~grow /\ ~shrink) => ret = args.rho

\* The dual residual dominates and the penalty is divided by tau.
C7_Witness ==
    /\ pc = "returned"
    /\ args.primal_residual = Dbl(1, 2)
    /\ args.dual_residual = Num(2)
    /\ args.mu = Num(2)
    /\ ret = DDiv(args.rho, args.tau)
    /\ ret # args.rho

----------------------------------------------------------------------------
(* SpecSP: spectral_penalty_parameter_update called on its own *)

\* Elements of VariableR: vectors of the plane with components in -1..1.
DeltaVectors == {<<Num(a), Num(b)>> : a, b \in -1..1}

SpectralArguments ==
    [delta_lambda_hat : DeltaVectors, delta_lambda : DeltaVectors,
     delta_H_hat : DeltaVectors, delta_G_hat : DeltaVectors,
     eps_cor : {Dbl(1, 5), Num(1), Dbl(-1, 2)}, rho : {Num(7)}]

InitSP ==
    /\ NoSolve
    /\ pc = "call"
    /\ args \in SpectralArguments
    /\ ret = Uninit

CallSpectral ==
    /\ pc = "call"
    /\ "eps_cor" \in DOMAIN args
    /\ ret' = spectral_penalty_parameter_update(
                  args.delta_lambda_hat, args.delta_lambda, args.delta_H_hat,
                  args.delta_G_hat, args.eps_cor, args.rho)
    /\ pc' = "returned"
    /\ UNCHANGED <<solveVars, args>>

NextSP == CallSpectral

SpecSP == InitSP /\ [][NextSP]_vars

\* The stepsizes and correlations of the call at hand.
Stepsizes ==
    SpectralStepsizes(args.delta_lambda_hat, args.delta_lambda,
                      args.delta_H_hat, args.delta_G_hat)

\* C9: alpha is alpha_MG if 2 alpha_MG > alpha_SD and alpha_SD - alpha_MG / 2
\* otherwise, beta likewise; for correlations that are not NaN exactly one of
\* the four tested cases applies and the result is sqrt(alpha beta) when both
\* correlations exceed eps_cor, alpha when only alpha_cor does, beta when
\* only beta_cor does, and the given rho when neither does.
C9_SafeguardSelection ==
    pc = "returned" =>
        LET t == Stepsizes
            a_pass == DGt(t.alpha_cor, args.eps_cor)
            b_pass == DGt(t.beta_cor, args.eps_cor)
            a_fail == DLe(t.alpha_cor, args.eps_cor)
            b_fail == DLe(t.beta_cor, args.eps_cor)
        IN  /\ t.alpha = IF DGt(DMul(Num(2), t.alpha_MG), t.alpha_SD)
                         THEN t.alpha_MG
                         ELSE DSub(t.alpha_SD, DDiv(t.alpha_MG, Num(2)))
            /\ t.beta = IF DGt(DMul(Num(2), t.beta_MG), t.beta_SD)
                        THEN t.beta_MG
                        ELSE DSub(t.beta_SD, DDiv(t.beta_MG, Num(2)))
            /\ (~IsNaN(t.alpha_cor) /\ ~IsNaN(t.beta_cor)) =>
                 /\ a_fail <=> ~a_pass
                 /\ b_fail <=> ~b_pass
                 /\ Cardinality({c \in {<<a_pass, b_pass>>, <<a_pass, b_fail>>,
                                        <<a_fail, b_pass>>, <<a_fail, b_fail>>} :
                                    c[1] /\ c[2]}) = 1
                 /\ (a_pass /\ b_pass) => ret = DSqrt(DMul(t.alpha, t.beta))
                 /\ (a_pass /\ ~b_pass) => ret = t.alpha
                 /\ (~a_pass /\ b_pass) => ret = t.beta
                 /\ (~a_pass /\ ~b_pass) => ret = args.rho

\* Only beta_cor exceeds eps_cor, and the result is a beta that the second
\* branch of the hybrid rule gave.
C9_Witness ==
    /\ pc = "returned"
    /\ "eps_cor" \in DOMAIN args
    /\ ~IsNaN(Stepsizes.alpha_cor)
    /\ DLe(Stepsizes.alpha_cor, args.eps_cor)
    /\ DGt(Stepsizes.beta_cor, args.eps_cor)
    /\ ret = Stepsizes.beta
    /\ ret = DSub(Stepsizes.beta_SD, DDiv(Stepsizes.beta_MG, Num(2)))
    /\ ret # Stepsizes.beta_MG
    /\ ret # args.rho

----------------------------------------------------------------------------
(* SpecE2E: ADMM() on min 1/2 |x - a|^2 + 1/2 |y - b|^2 s.t. x - y = 0 *)

\* The iteration limit of the runs that are given room to converge.
E2EIterations == 8

\* <<x0, y0>>
E2EStarts ==
    {<<<<Zero, Zero>>, <<Zero, Zero>>>>,
     <<<<Dbl(15, 4), Num(2)>>, <<Zero, Zero>>>>,
     <<<<Num(1), Num(2)>>, <<Num(3), Num(-1)>>>>,
     <<<<Num(3), Num(-1)>>, <<Num(1), Num(2)>>>>}

\* a = [1, 2], b = [3, -1], A = identity, B = -identity, c = 0, with the exact
\* minimizers of the augmented Lagrangian.
E2EProblem(start) ==
    [A |-> Num(1), B |-> Num(-1), c |-> <<Zero, Zero>>,
     x0 |-> start[1], y0 |-> start[2],
     minimizers |-> "quadratic", a |-> <<Num(1), Num(2)>>, b |-> <<Num(3), Num(-1)>>]

\* mode None, rho = 1, eps_abs_pri = eps_abs_dual = 1e-2, eps_rel = 1e-3: the
\* defaults of ADMMParams; runs with room to converge, and runs cut short by
\* the iteration limit or the time budget.
E2EParams ==
    {Extend(DefaultParams,
            [max_iterations |-> k, max_computation_time |-> t, log_iterates |-> FALSE]) :
        k \in {2, E2EIterations}, t \in {0, MaxClock}}

InitE2E ==
    \E pr \in E2EParams, start \in E2EStarts :
        /\ InitADMM(pr, E2EProblem(start))
        /\ div_by_zero \in DivByZeroOutcomes(pr)

\* In mode None i % penalty_adaptation_period is never evaluated.
NextE2E ==
    \/ LoopExit
    \/ ElapsedTimeBreak
    \/ IterationStart
    \/ MinimizeX
    \/ MinimizeY
    \/ PrimalResidual
    \/ DualUpdate
    \/ StopTest
    \/ PenaltyUpdate
    \/ Return

SpecE2E == InitE2E /\ [][NextE2E]_vars

\* (a + b) / 2
Consensus == <<Num(2), Dbl(1, 2)>>

\* |v - (a + b)/2| <= tol
Within(v, tol) ==
    DLe(InnerProduct(VSub(v, Consensus), VSub(v, Consensus)), DMul(tol, tol))

\* A call that the time budget did not stop and that had E2EIterations
\* iterations at its disposal has returned.
Converged ==
    /\ pc = "done"
    /\ params.max_iterations = E2EIterations
    /\ result.status # "ELAPSED_TIME"

============================================================================
